---- MODULE Spec2Model ----
(***************************************************************************)
(* A state-machine model of FocusWithLuna.py: the resource lists kept by   *)
(* ResourceDataManager and their two JSON files, the daily question        *)
(* counter and the overall target kept by KaynakApp, the pomodoro timer,    *)
(* the countdown to the target date, and the configuration                 *)
(* file.  Texts are sequences of one-character strings, timestamps are     *)
(* pairs <<day, second>> (the order of "%Y-%m-%d %H:%M:%S" strings), a     *)
(* file is a record saying whether it exists, whether it parses, and what  *)
(* it holds.                                                               *)
(***************************************************************************)
EXTENDS Integers, Sequences, FiniteSets

\* ------------------------------------------------------------------ bounds
MaxDay == 1
MaxSec == 1
MaxAccepted == 2
MaxInitTotal == 1
MaxLoadedSolved == 30
MaxConfigDuration == 3
MaxShots == 2

\* ------------------------------------------------------- program constants
DEFAULT_POMODORO_DURATION == 1500
DEFAULT_TOTAL_QUESTION_TARGET == 5000
DEFAULT_INCREMENT_SOLVED_QUESTIONS == 500
\* "2026-06-20 00:00:00" on the model's clock: midnight of the last day
DEFAULT_TARGET_DATE == <<MaxDay, 0>>
DEFAULT_MUSIC_PATH == "assets/wake_up.mp3"
DEFAULT_BG_PATH == "assets/background_image.jpg"

Kinds == {"solved", "topic"}
Days == 0..MaxDay
Seconds == 0..MaxSec

VARIABLES
    now,                          \* the wall clock, <<day, second>>
    solved_resources,             \* ResourceDataManager.solved_resources
    topic_resources,              \* ResourceDataManager.topic_resources
    source_file,                  \* resources_solved.json
    topic_file,                   \* resources_topics.json
    ret,                          \* what the data manager's method returned
    saved,                        \* save_resources ran in the last handler
    message,                      \* the message box the last handler showed
    daily_questions,              \* KaynakApp.daily_questions
    total_target_question_count,  \* KaynakApp.total_target_question_count
    pomodoro_duration,            \* KaynakApp.pomodoro_duration
    music_path,                   \* KaynakApp.music_path
    bg_path,                      \* KaynakApp.bg_path
    target_date,                  \* KaynakApp.target_date
    config_file,                  \* app_config.json
    config_saved,                 \* _save_config ran in the last handler
    progress_bar,                 \* the value given to progress_bar.setValue
    celebrated,                   \* show_celebration ran in the last handler
    initial_total,                \* history: the total loaded at startup
    accepted_sum,                 \* history: sum of the accepted increments
    current_time_left,            \* KaynakApp.current_time_left
    is_timer_running,             \* KaynakApp.is_timer_running
    pomodoro_timer,               \* pomodoro_timer.isActive(): ticks are scheduled
    timer_label,                  \* what timer_label shows
    alarm_played,                 \* play_alarm_sound ran in the last timer handler
    loaded_seconds,               \* history: the duration last loaded into the timer
    ticks_delivered,              \* history: timeouts delivered since that load
    remaining_days_label,         \* what remaining_days_label shows
    day_counter_shots,            \* due times of the pending QTimer.singleShot calls
    closed                        \* closeEvent has run: the window is gone

storeVars == <<solved_resources, topic_resources, source_file, topic_file, ret, saved>>
trackerVars == <<daily_questions, total_target_question_count, progress_bar,
                 initial_total, accepted_sum>>
settingVars == <<pomodoro_duration, music_path, bg_path, target_date>>
configVars == <<config_file, config_saved>>
timerVars == <<current_time_left, is_timer_running, pomodoro_timer, timer_label,
               alarm_played, loaded_seconds, ticks_delivered>>
counterVars == <<remaining_days_label, day_counter_shots>>
vars == <<now, storeVars, trackerVars, settingVars, configVars, message, celebrated,
          timerVars, counterVars, closed>>

\* ------------------------------------------------------------------- texts
\* str.strip(): leading and trailing blanks removed.
RECURSIVE LStrip(_)
LStrip(s) ==
    IF s # <<>> /\ Head(s) = " " THEN LStrip(Tail(s)) ELSE s

RECURSIVE RStrip(_)
RStrip(s) ==
    IF s # <<>> /\ s[Len(s)] = " " THEN RStrip(SubSeq(s, 1, Len(s) - 1)) ELSE s

Strip(s) == RStrip(LStrip(s))

LowerChar(c) ==
    CASE c = "A" -> "a"
      [] c = "B" -> "b"
      [] OTHER -> c

\* str.lower(), character by character.
Lower(s) == [i \in 1..Len(s) |-> LowerChar(s[i])]

DigitChars == <<"0", "1", "2", "3", "4", "5", "6", "7", "8", "9">>

IsDigit(c) == \E i \in 1..10 : DigitChars[i] = c

DigitVal(c) == (CHOOSE i \in 1..10 : DigitChars[i] = c) - 1

RECURSIVE DigitsValue(_)
DigitsValue(s) ==
    IF s = <<>> THEN 0
    ELSE 10 * DigitsValue(SubSeq(s, 1, Len(s) - 1)) + DigitVal(s[Len(s)])

IsDigits(s) == s # <<>> /\ \A i \in 1..Len(s) : IsDigit(s[i])

\* int(text.strip()): an optional sign and decimal digits, or ValueError.
ParseInt(text) ==
    LET s == Strip(text)
        signed == s # <<>> /\ Head(s) \in {"+", "-"}
        body == IF signed THEN Tail(s) ELSE s
    IN  IF IsDigits(body)
        THEN [ok |-> TRUE,
              value |-> IF signed /\ Head(s) = "-" THEN 0 - DigitsValue(body)
                        ELSE DigitsValue(body)]
        ELSE [ok |-> FALSE, value |-> 0]

\* --------------------------------------------------------------- resources
BaseResource(name, added_date) == [name |-> name, added_date |-> added_date]

\* added_date strings compare as the pairs <<day, second>> do.
DateLess(d1, d2) == d1[1] < d2[1] \/ (d1[1] = d2[1] /\ d1[2] < d2[2])

AbsentFile == [exists |-> FALSE, valid |-> FALSE, data |-> <<>>]
MalformedFile == [exists |-> TRUE, valid |-> FALSE, data |-> <<>>]
JsonFile(data) == [exists |-> TRUE, valid |-> TRUE, data |-> data]

load_resources(file) ==
    IF file.exists /\ file.valid
    THEN [i \in 1..Len(file.data) |->
            BaseResource(file.data[i].name, file.data[i].added_date)]
    ELSE <<>>

\* save_resources writing the first file only.
SaveSolvedOnly(solved, topic) ==
    [source |-> JsonFile(solved), topic |-> topic_file]

\* Both files are rewritten, whichever kind changed.
save_resources(solved, topic) ==
    [source |-> JsonFile(solved), topic |-> JsonFile(topic)]

get_resources(resource_type, solved, topic) ==
    IF resource_type = "topic" THEN topic ELSE solved

\* HasName with the names compared as they are written.
HasNameExact(resources, resource_name) ==
    \E i \in 1..Len(resources) : resources[i].name = resource_name

HasName(resources, resource_name) ==
    \E i \in 1..Len(resources) : Lower(resources[i].name) = Lower(resource_name)

\* add_resource without the look-up of the name.
AddResourceUnchecked(resources, resource_name, stamp) ==
    [ok |-> TRUE, list |-> Append(resources, BaseResource(resource_name, stamp))]

ResourceDataManager_add_resource(resources, resource_name, stamp) ==
    IF HasName(resources, resource_name)
    THEN [ok |-> FALSE, list |-> resources]
    ELSE [ok |-> TRUE, list |-> Append(resources, BaseResource(resource_name, stamp))]

\* KeepOthers with the names compared as they are written.
KeepOthersExact(resources, resource_name) ==
    SelectSeq(resources, LAMBDA r : r.name # resource_name)

KeepOthers(resources, resource_name) ==
    SelectSeq(resources, LAMBDA r : Lower(r.name) # Lower(resource_name))

ResourceDataManager_remove_resource(resources, resource_name) ==
    LET kept == KeepOthers(resources, resource_name)
    IN  [ok |-> Len(kept) < Len(resources), list |-> kept]

\* list.sort(key=added_date, reverse=True): stable, so records with equal
\* dates keep the order they had.
RECURSIVE InsertByDate(_, _)
InsertByDate(sorted, r) ==
    IF sorted = <<>> THEN <<r>>
    ELSE IF DateLess(Head(sorted).added_date, r.added_date)
         THEN <<r>> \o sorted
         ELSE <<Head(sorted)>> \o InsertByDate(Tail(sorted), r)

RECURSIVE SortByDateDesc(_)
SortByDateDesc(resources) ==
    IF resources = <<>> THEN <<>>
    ELSE InsertByDate(SortByDateDesc(SubSeq(resources, 1, Len(resources) - 1)),
                      resources[Len(resources)])

\* list_resources sorts the manager's own list in place.
list_resources(resources) == SortByDateDesc(resources)

\* ----------------------------------------------------------------- tracker
RECURSIVE SumOver(_, _)
SumOver(f, keys) ==
    IF keys = {} THEN 0
    ELSE LET k == CHOOSE x \in keys : TRUE
         IN  f[k] + SumOver(f, keys \ {k})

\* sum(self.daily_questions.values())
TotalSolved(dq) == SumOver(dq, DOMAIN dq)

get_today_date(clock) == clock[1]

get_today_solved_count(dq, clock) ==
    IF get_today_date(clock) \in DOMAIN dq THEN dq[get_today_date(clock)] ELSE 0

\* IsGoalReached with a strict comparison.
IsGoalReachedStrict(solved, target) == solved > target /\ target > 0

\* the condition of check_celebration and of update_total_progress
IsGoalReached(solved, target) == solved >= target /\ target > 0

\* RecordIncrement storing the amount in place of the sum.
RecordOverwrite(dq, today, amount) ==
    [d \in (DOMAIN dq) \cup {today} |-> IF d = today THEN amount ELSE dq[d]]

\* RecordIncrement adding the amount to every date.
RecordIncrementEveryDate(dq, today, amount) ==
    [d \in (DOMAIN dq) \cup {today} |->
        (IF d \in DOMAIN dq THEN dq[d] ELSE 0) + amount]

\* self.daily_questions[today] = self.daily_questions.get(today, 0) + amount
RecordIncrement(dq, today, amount) ==
    [d \in (DOMAIN dq) \cup {today} |->
        IF d = today THEN (IF today \in DOMAIN dq THEN dq[today] ELSE 0) + amount
        ELSE dq[d]]

NoQuestions == [d \in {} |-> 0]

ConfigOf(duration, target, dq, music, bg, date) ==
    [pomodoro_duration |-> duration,
     total_target_question_count |-> target,
     daily_questions |-> dq,
     music_path |-> music,
     background_path |-> bg,
     target_date |-> date]

\* save_config writing the default target date whatever the date in memory.
SaveConfigStaleDate(duration, target, dq, music, bg, date) ==
    JsonFile(ConfigOf(duration, target, dq, music, bg, DEFAULT_TARGET_DATE))

\* _save_config: the six values as they are in memory
save_config(duration, target, dq, music, bg, date) ==
    JsonFile(ConfigOf(duration, target, dq, music, bg, date))

DefaultConfig ==
    ConfigOf(DEFAULT_POMODORO_DURATION, DEFAULT_TOTAL_QUESTION_TARGET, NoQuestions,
             DEFAULT_MUSIC_PATH, DEFAULT_BG_PATH, DEFAULT_TARGET_DATE)

\* A config file that is missing or does not parse; its data is never read.
AbsentConfig == [exists |-> FALSE, valid |-> FALSE, data |-> DefaultConfig]
MalformedConfig == [exists |-> TRUE, valid |-> FALSE, data |-> DefaultConfig]

\* _load_config: the defaults when the file is missing or does not parse
load_config(file) ==
    IF file.exists /\ file.valid THEN file.data ELSE DefaultConfig

\* ------------------------------------------------------- binary64 numbers
\* A positive float is its 53 significand bits, most significant first, and
\* the exponent of the last bit: the value is BitsToInt(m) * 2^e.  Carries
\* and remainders are worked in limbs of LimbBits bits.
SignificandBits == 53
LimbBits == 9

Zeros(k) == [i \in 1..k |-> 0]

FloatZero == [zero |-> TRUE, m |-> Zeros(SignificandBits), e |-> 0]

RECURSIVE Pow2(_)
Pow2(k) == IF k = 0 THEN 1 ELSE 2 * Pow2(k - 1)

LimbBase == Pow2(LimbBits)

RECURSIVE BitsToInt(_)
BitsToInt(bits) ==
    IF bits = <<>> THEN 0
    ELSE 2 * BitsToInt(SubSeq(bits, 1, Len(bits) - 1)) + bits[Len(bits)]

\* The bits of a sequence of limbs, and the limbs of a sequence of bits
\* whose length is a multiple of LimbBits.
LimbsToBits(limbs) ==
    [i \in 1..(Len(limbs) * LimbBits) |->
        (limbs[((i - 1) \div LimbBits) + 1]
            \div Pow2(LimbBits - 1 - ((i - 1) % LimbBits))) % 2]

BitsToLimbs(bits) ==
    [j \in 1..(Len(bits) \div LimbBits) |->
        BitsToInt(SubSeq(bits, (j - 1) * LimbBits + 1, j * LimbBits))]

DropLeadingZeros(bits) ==
    IF \A i \in 1..Len(bits) : bits[i] = 0 THEN <<>>
    ELSE LET first == CHOOSE i \in 1..Len(bits) :
                          bits[i] = 1 /\ \A j \in 1..(i - 1) : bits[j] = 0
         IN  SubSeq(bits, first, Len(bits))

\* bits + 1, with one more bit in front when every bit was 1.
Increment(bits) ==
    IF \A i \in 1..Len(bits) : bits[i] = 1 THEN <<1>> \o Zeros(Len(bits))
    ELSE LET last == CHOOSE i \in 1..Len(bits) :
                         bits[i] = 0 /\ \A j \in (i + 1)..Len(bits) : bits[j] = 1
         IN  [i \in 1..Len(bits) |->
                IF i < last THEN bits[i] ELSE IF i = last THEN 1 ELSE 0]

\* Round to nearest, ties to even: bits holds at least 53 bits and starts
\* with 1, sticky says whether anything nonzero lies below bits, e is the
\* exponent of the last bit of bits.
RoundNearestEven(bits, sticky, e) ==
    LET extra == Len(bits) - SignificandBits
        kept == SubSeq(bits, 1, SignificandBits)
        guard == IF extra > 0 THEN bits[SignificandBits + 1] ELSE 0
        below == sticky \/ \E i \in (SignificandBits + 2)..Len(bits) : bits[i] = 1
        up == guard = 1 /\ (below \/ kept[SignificandBits] = 1)
        raised == Increment(kept)
    IN  IF ~up THEN [zero |-> FALSE, m |-> kept, e |-> e + extra]
        ELSE IF Len(raised) > SignificandBits
             THEN [zero |-> FALSE, m |-> SubSeq(raised, 1, SignificandBits),
                   e |-> e + extra + 1]
             ELSE [zero |-> FALSE, m |-> raised, e |-> e + extra]

\* Scale n / d by powers of two until d <= n < 2d.
RECURSIVE Normalise(_, _, _)
Normalise(n, d, sh) ==
    IF n < d THEN Normalise(2 * n, d, sh - 1)
    ELSE IF n >= 2 * d THEN Normalise(n, 2 * d, sh + 1)
    ELSE [n |-> n, d |-> d, sh |-> sh]

\* The next k limbs of r / d, for r < d, followed by the remainder left.
RECURSIVE QuotientLimbs(_, _, _)
QuotientLimbs(r, d, k) ==
    IF k = 0 THEN <<r>>
    ELSE <<(LimbBase * r) \div d>> \o QuotientLimbs((LimbBase * r) % d, d, k - 1)

\* enough limbs for the bits after the first, the rounding bit included
QuotientLimbCount == (SignificandBits + LimbBits) \div LimbBits

\* solved / target on two ints: the correctly rounded quotient (a >= 0, b > 0).
TrueDivide(a, b) ==
    IF a = 0 THEN FloatZero
    ELSE LET nd == Normalise(a, b, 0)
             q == QuotientLimbs(nd.n - nd.d, nd.d, QuotientLimbCount)
             frac == LimbsToBits(SubSeq(q, 1, QuotientLimbCount))
         IN  RoundNearestEven(<<1>> \o frac, q[QuotientLimbCount + 1] # 0,
                              nd.sh - QuotientLimbCount * LimbBits)

\* limbs * k + carry for a small positive k, exactly.
RECURSIVE TimesSmall(_, _, _)
TimesSmall(limbs, k, carry) ==
    IF limbs = <<>>
    THEN IF carry = 0 THEN <<>>
         ELSE TimesSmall(<<>>, k, carry \div LimbBase) \o <<carry % LimbBase>>
    ELSE TimesSmall(SubSeq(limbs, 1, Len(limbs) - 1), k,
                    (limbs[Len(limbs)] * k + carry) \div LimbBase)
         \o <<(limbs[Len(limbs)] * k + carry) % LimbBase>>

\* x * k: the exact product rounded to a float.
FloatTimesInt(x, k) ==
    IF x.zero THEN FloatZero
    ELSE LET pad == (LimbBits - (SignificandBits % LimbBits)) % LimbBits
             limbs == BitsToLimbs(Zeros(pad) \o x.m)
             product == LimbsToBits(TimesSmall(limbs, k, 0))
         IN  RoundNearestEven(DropLeadingZeros(product), FALSE, x.e)

\* int(x): the fraction is cut off.
FloatToInt(x) ==
    IF x.zero THEN 0
    ELSE IF x.e >= 0 THEN BitsToInt(x.m) * Pow2(x.e)
    ELSE IF SignificandBits + x.e <= 0 THEN 0
    ELSE BitsToInt(SubSeq(x.m, 1, SignificandBits + x.e))

Min(a, b) == IF a < b THEN a ELSE b

\* int((solved / target) * 100) if target > 0 else 0
progress_percentage(solved, target) ==
    IF target > 0 THEN FloatToInt(FloatTimesInt(TrueDivide(solved, target), 100)) ELSE 0

\* the value update_total_progress gives to the progress bar
ProgressValue(solved, target) == Min(progress_percentage(solved, target), 100)

\* ------------------------------------------------------------------ timer
Max(a, b) == IF a >= b THEN a ELSE b

\* divmod(max(0, current_time_left), 60), as timer_label shows it
TimerLabel(left) ==
    [minutes |-> Max(0, left) \div 60, seconds |-> Max(0, left) % 60,
     time_to_break |-> FALSE]

\* the label after expiry: "Time to break" has replaced the minutes:seconds
BreakLabel(left) ==
    [minutes |-> Max(0, left) \div 60, seconds |-> Max(0, left) % 60,
     time_to_break |-> TRUE]

\* timer_tick leaving the tick source scheduled at expiry.
TimerTickKeepsSource(left, running, active) ==
    LET l == IF running THEN left - 1 ELSE left
        expired == l <= 0 /\ running
    IN  [current_time_left |-> l,
         is_timer_running |-> running /\ ~expired,
         pomodoro_timer |-> active,
         timer_label |-> IF expired THEN BreakLabel(l) ELSE TimerLabel(l),
         alarm |-> expired]

\* _timer_tick: one second is taken off while the timer runs, the label is
\* set, and at zero the tick source is stopped and the alarm is played.
timer_tick(left, running, active) ==
    LET l == IF running THEN left - 1 ELSE left
        expired == l <= 0 /\ running
    IN  [current_time_left |-> l,
         is_timer_running |-> running /\ ~expired,
         pomodoro_timer |-> active /\ ~expired,
         timer_label |-> IF expired THEN BreakLabel(l) ELSE TimerLabel(l),
         alarm |-> expired]

\* StartLeft without the reload.
StartLeftKept(left, duration) == left

\* start_pomodoro_timer: the full duration is loaded when no time is left
StartLeft(left, duration) == IF left <= 0 THEN duration ELSE left

\* DurationLeft leaving the time left alone also when the timer is not running.
DurationLeftKept(seconds, left, running) == left

\* _update_pomodoro_duration: the time left follows unless the timer runs
DurationLeft(seconds, left, running) == IF ~running THEN seconds ELSE left

\* setRange(1, 60) of the pomodoro spin box, which shows minutes
POMODORO_SPIN_MIN == 1
POMODORO_SPIN_MAX == 60

PomodoroSpinValue(v) ==
    IF v < POMODORO_SPIN_MIN THEN POMODORO_SPIN_MIN
    ELSE IF v > POMODORO_SPIN_MAX THEN POMODORO_SPIN_MAX ELSE v

\* -------------------------------------------------------------- countdown
SECONDS_PER_DAY == 86400
SECONDS_PER_HOUR == 3600
\* QTimer.singleShot(60000, ...): sixty seconds
REFRESH_SECONDS == 60

\* TimeDelta without the borrow from the days.
TimeDeltaNoBorrow(a, b) == [days |-> a[1] - b[1], seconds |-> a[2] - b[2]]

\* a - b of two datetimes as a timedelta: days and 0 <= seconds < 86400
TimeDelta(a, b) ==
    LET d == a[1] - b[1]
        sec == a[2] - b[2]
    IN  IF sec < 0 THEN [days |-> d - 1, seconds |-> sec + SECONDS_PER_DAY]
        ELSE [days |-> d, seconds |-> sec]

\* timedelta.total_seconds()
total_seconds(delta) == delta.days * SECONDS_PER_DAY + delta.seconds

\* the datetime n seconds (less than a day) after t
PlusSeconds(t, n) ==
    IF t[2] + n >= SECONDS_PER_DAY THEN <<t[1] + 1, t[2] + n - SECONDS_PER_DAY>>
    ELSE <<t[1], t[2] + n>>

PassedLabel == [passed |-> TRUE, days |-> 0, hours |-> 0]

\* update_day_counter: what the label shows, and whether a refresh is
\* scheduled for sixty seconds later.
update_day_counter(target, clock) ==
    LET time_difference == TimeDelta(target, clock)
    IN  IF total_seconds(time_difference) <= 0
        THEN [label |-> PassedLabel, shot |-> <<>>]
        ELSE [label |-> [passed |-> FALSE,
                         days |-> time_difference.days,
                         hours |-> time_difference.seconds \div SECONDS_PER_HOUR],
              shot |-> <<PlusSeconds(clock, REFRESH_SECONDS)>>]

\* the pending calls without the i-th
RemoveAt(shots, i) ==
    [j \in 1..(Len(shots) - 1) |-> IF j < i THEN shots[j] ELSE shots[j + 1]]

\* ------------------------------------------------------------------ inputs
\* What is typed into the two name fields, and the rows that can be selected.
StoreTexts == {<<>>, <<" ">>, <<"a">>, <<"A">>, <<" ", "a">>, <<"b">>}
StoreNames == {<<"a">>, <<"A">>, <<"b">>}
AppTexts == {<<>>, <<"a">>}
AppNames == {<<"a">>}
NoSelection == <<>>

\* What is typed into the daily question field.
AmountTexts == {<<>>, <<"x">>, <<"0">>, <<"-", "1">>, <<"1">>, <<" ", "2">>, <<"1", ".", "5">>}

\* The values the target spin box is set to.
TargetInputs == {1, 2}
PercentTargetInputs == {1, 7, 50, 100}

\* The minutes the pomodoro spin box is set to.
TimerMinutes == {1, 2}

\* What the background file dialog returns: nothing, or a picture's path.
BackgroundPaths == {"", "pictures/luna.png"}

\* The days of the countdown's targets, the instants its clock moves through,
\* and the target dates a config file can hold.
CountdownDays == {0, 1, 10}
CountdownInstants == {<<0, 0>>, <<0, 60>>, <<0, 3601>>, <<1, 0>>, <<10, 10800>>}
CountdownTargets == {<<0, 0>>, <<1, 0>>, <<10, 10800>>}

\* setRange(1, 999999) of the target spin box
TARGET_SPIN_MIN == 1
TARGET_SPIN_MAX == 999999

SpinBoxValue(v) ==
    IF v < TARGET_SPIN_MIN THEN TARGET_SPIN_MIN
    ELSE IF v > TARGET_SPIN_MAX THEN TARGET_SPIN_MAX ELSE v

\* ----------------------------------------------------------------- startup
\* KaynakApp.__init__: the config and the two lists are loaded, the timer is
\* set up idle with the full duration, both lists are shown (and so sorted),
\* the countdown is shown and its refresh scheduled, the progress bar is set.
Startup(clock, sfile, tfile, cfile) ==
    LET config == load_config(cfile)
        solved == TotalSolved(config.daily_questions)
    IN  /\ now = clock
        /\ source_file = sfile
        /\ topic_file = tfile
        /\ config_file = cfile
        /\ solved_resources = list_resources(load_resources(sfile))
        /\ topic_resources = list_resources(load_resources(tfile))
        /\ ret = "none"
        /\ saved = FALSE
        /\ message = "none"
        /\ daily_questions = config.daily_questions
        /\ total_target_question_count = config.total_target_question_count
        /\ pomodoro_duration = config.pomodoro_duration
        /\ music_path = config.music_path
        /\ bg_path = config.background_path
        /\ target_date = config.target_date
        /\ config_saved = FALSE
        /\ progress_bar = ProgressValue(solved, config.total_target_question_count)
        /\ celebrated = IsGoalReached(solved, config.total_target_question_count)
        /\ initial_total = solved
        /\ accepted_sum = 0
        /\ current_time_left = config.pomodoro_duration
        /\ is_timer_running = FALSE
        /\ pomodoro_timer = FALSE
        /\ timer_label = timer_tick(config.pomodoro_duration, FALSE, FALSE).timer_label
        /\ alarm_played = FALSE
        /\ loaded_seconds = config.pomodoro_duration
        /\ ticks_delivered = 0
        /\ remaining_days_label = update_day_counter(config.target_date, clock).label
        /\ day_counter_shots = update_day_counter(config.target_date, clock).shot
        /\ closed = FALSE

\* The resource files the program can have left behind the day before: none,
\* one that does not parse, or what save_resources wrote (in the order of
\* the list at that moment, which need not be sorted).
StoreFiles ==
    {AbsentFile, MalformedFile, JsonFile(<<>>),
     JsonFile(<<BaseResource(<<"a">>, <<0, 0>>)>>),
     JsonFile(<<BaseResource(<<"A">>, <<0, 0>>), BaseResource(<<"b">>, <<0, 1>>)>>)}

\* daily_questions as a config file can hold them: counts for day 0
LoadedQuestions(maxTotal) ==
    {NoQuestions} \cup {[d \in {0} |-> n] : n \in 1..maxTotal}

ConfigWith(target, dq) ==
    JsonFile(ConfigOf(DEFAULT_POMODORO_DURATION, target, dq,
                      DEFAULT_MUSIC_PATH, DEFAULT_BG_PATH, DEFAULT_TARGET_DATE))

\* A config file with the given timer duration, background and target date.
ConfigWithSettings(duration, bg, date) ==
    JsonFile(ConfigOf(duration, DEFAULT_TOTAL_QUESTION_TARGET, NoQuestions,
                      DEFAULT_MUSIC_PATH, bg, date))

\* The timer starts from a config file holding a duration of a few seconds
\* or of whole minutes.
InitTimer ==
    \E d \in (0..MaxConfigDuration) \cup {60 * v : v \in TimerMinutes} :
        Startup(<<0, 0>>, AbsentFile, AbsentFile,
                ConfigWithSettings(d, DEFAULT_BG_PATH, DEFAULT_TARGET_DATE))

InitCountdown ==
    \E date \in CountdownTargets :
        Startup(<<0, 0>>, AbsentFile, AbsentFile,
                ConfigWithSettings(DEFAULT_POMODORO_DURATION, DEFAULT_BG_PATH, date))

InitConfig ==
    \E cfile \in {AbsentConfig}
                 \cup {ConfigWith(2, dq) : dq \in LoadedQuestions(MaxInitTotal)} :
        Startup(<<0, 0>>, AbsentFile, AbsentFile, cfile)

\* The program starts at the beginning of day 1.
InitStore ==
    \E sfile \in StoreFiles, tfile \in StoreFiles :
        Startup(<<1, 0>>, sfile, tfile, AbsentConfig)

Init ==
    \E cfile \in {AbsentConfig, MalformedConfig}
                 \cup {ConfigWith(t, dq) : t \in {0, 2}, dq \in LoadedQuestions(MaxInitTotal)} :
        Startup(<<0, 0>>, AbsentFile, AbsentFile, cfile)

InitPercent ==
    \E cfile \in {ConfigWith(t, dq) : t \in {0 - 1, 0} \cup PercentTargetInputs,
                                      dq \in LoadedQuestions(MaxLoadedSolved)} :
        Startup(<<0, 0>>, AbsentFile, AbsentFile, cfile)

\* ---------------------------------------------------------------- handlers
\* KaynakApp.add_resource: the text of the input field is stripped, the
\* manager appends and saves, the list is shown again (sorted in place).
KaynakApp_add_resource(resource_type, text) ==
    LET resource_name == Strip(text)
        resources == get_resources(resource_type, solved_resources, topic_resources)
        r == ResourceDataManager_add_resource(resources, resource_name, now)
        solved == IF resource_type = "topic" THEN solved_resources ELSE r.list
        topic == IF resource_type = "topic" THEN r.list ELSE topic_resources
        files == save_resources(solved, topic)
    IN  /\ IF resource_name = <<>>
           THEN /\ message' = "enter_name"
                /\ ret' = "none"
                /\ saved' = FALSE
                /\ celebrated' = FALSE
                /\ UNCHANGED <<solved_resources, topic_resources, source_file, topic_file>>
           ELSE IF r.ok
           THEN /\ source_file' = files.source
                /\ topic_file' = files.topic
                /\ saved' = TRUE
                /\ ret' = "true"
                /\ message' = IF resource_type = "solved" THEN "added_with_questions"
                              ELSE "none"
                /\ solved_resources' = IF resource_type = "topic" THEN solved_resources
                                       ELSE list_resources(solved)
                /\ topic_resources' = IF resource_type = "topic" THEN list_resources(topic)
                                      ELSE topic_resources
                /\ celebrated' = IsGoalReached(TotalSolved(daily_questions),
                                               total_target_question_count)
           ELSE /\ message' = "already_added"
                /\ ret' = "false"
                /\ saved' = FALSE
                /\ celebrated' = FALSE
                /\ UNCHANGED <<solved_resources, topic_resources, source_file, topic_file>>
        /\ config_saved' = FALSE
        /\ UNCHANGED <<now, trackerVars, settingVars, config_file>>
        /\ ~closed
        /\ UNCHANGED <<timerVars, counterVars, closed>>

\* KaynakApp.remove_selected_resource: selection is the name of the selected
\* row (NoSelection when no row is selected), confirmed the answer to the
\* question box.  Any name can be passed, so that the manager's method is
\* also followed on a name the list does not hold.
KaynakApp_remove_selected_resource(resource_type, selection, confirmed) ==
    LET resources == get_resources(resource_type, solved_resources, topic_resources)
        r == ResourceDataManager_remove_resource(resources, selection)
        solved == IF resource_type = "topic" THEN solved_resources ELSE r.list
        topic == IF resource_type = "topic" THEN r.list ELSE topic_resources
        files == save_resources(solved, topic)
    IN  /\ IF selection = NoSelection
           THEN /\ message' = "select_item"
                /\ ret' = "none"
                /\ saved' = FALSE
                /\ UNCHANGED <<solved_resources, topic_resources, source_file, topic_file>>
           ELSE IF ~confirmed
           THEN /\ message' = "none"
                /\ ret' = "none"
                /\ saved' = FALSE
                /\ UNCHANGED <<solved_resources, topic_resources, source_file, topic_file>>
           ELSE IF r.ok
           THEN /\ source_file' = files.source
                /\ topic_file' = files.topic
                /\ saved' = TRUE
                /\ ret' = "true"
                /\ message' = "none"
                /\ solved_resources' = IF resource_type = "topic" THEN solved_resources
                                       ELSE list_resources(solved)
                /\ topic_resources' = IF resource_type = "topic" THEN list_resources(topic)
                                      ELSE topic_resources
           ELSE /\ message' = "delete_problem"
                /\ ret' = "false"
                /\ saved' = FALSE
                /\ solved_resources' = solved
                /\ topic_resources' = topic
                /\ UNCHANGED <<source_file, topic_file>>
        /\ celebrated' = FALSE
        /\ config_saved' = FALSE
        /\ UNCHANGED <<now, trackerVars, settingVars, config_file>>
        /\ ~closed
        /\ UNCHANGED <<timerVars, counterVars, closed>>

\* KaynakApp.clear_all_resources: the list is emptied and both files are
\* written whether or not it held anything.
KaynakApp_clear_all_resources(resource_type, confirmed) ==
    LET solved == IF resource_type = "topic" THEN solved_resources ELSE <<>>
        topic == IF resource_type = "topic" THEN <<>> ELSE topic_resources
        files == save_resources(solved, topic)
    IN  /\ IF confirmed
           THEN /\ source_file' = files.source
                /\ topic_file' = files.topic
                /\ saved' = TRUE
                /\ solved_resources' = IF resource_type = "topic" THEN solved_resources
                                       ELSE list_resources(solved)
                /\ topic_resources' = IF resource_type = "topic" THEN list_resources(topic)
                                      ELSE topic_resources
           ELSE /\ saved' = FALSE
                /\ UNCHANGED <<solved_resources, topic_resources, source_file, topic_file>>
        /\ ret' = "none"
        /\ message' = "none"
        /\ celebrated' = FALSE
        /\ config_saved' = FALSE
        /\ UNCHANGED <<now, trackerVars, settingVars, config_file>>
        /\ ~closed
        /\ UNCHANGED <<timerVars, counterVars, closed>>

\* KaynakApp.add_daily_questions: the total of the accepted amounts is kept
\* within MaxAccepted.
KaynakApp_add_daily_questions(text) ==
    LET parsed == ParseInt(text)
        today == get_today_date(now)
        questions == RecordIncrement(daily_questions, today, parsed.value)
    IN  /\ IF ~parsed.ok
           THEN /\ message' = "valid_number"
                /\ config_saved' = FALSE
                /\ celebrated' = FALSE
                /\ UNCHANGED <<daily_questions, config_file, accepted_sum>>
           ELSE IF parsed.value <= 0
           THEN /\ message' = "greater_than_zero"
                /\ config_saved' = FALSE
                /\ celebrated' = FALSE
                /\ UNCHANGED <<daily_questions, config_file, accepted_sum>>
           ELSE /\ accepted_sum + parsed.value <= MaxAccepted
                /\ daily_questions' = questions
                /\ config_file' = save_config(pomodoro_duration, total_target_question_count,
                                              questions, music_path, bg_path, target_date)
                /\ config_saved' = TRUE
                /\ message' = "questions_added"
                /\ accepted_sum' = accepted_sum + parsed.value
                /\ celebrated' = IsGoalReached(TotalSolved(questions),
                                               total_target_question_count)
        /\ ret' = "none"
        /\ saved' = FALSE
        /\ UNCHANGED <<now, solved_resources, topic_resources, source_file, topic_file,
                       total_target_question_count, progress_bar, initial_total,
                       settingVars>>
        /\ ~closed
        /\ UNCHANGED <<timerVars, counterVars, closed>>

\* KaynakApp._update_total_target, the valueChanged slot of the target spin
\* box: it runs when the box takes a value other than the one it shows.
KaynakApp_update_total_target(value) ==
    /\ ~closed
    /\ value # SpinBoxValue(total_target_question_count)
    /\ total_target_question_count' = value
    /\ config_file' = save_config(pomodoro_duration, value, daily_questions,
                                  music_path, bg_path, target_date)
    /\ config_saved' = TRUE
    /\ progress_bar' = ProgressValue(TotalSolved(daily_questions), value)
    /\ celebrated' = IsGoalReached(TotalSolved(daily_questions), value)
    /\ ret' = "none"
    /\ saved' = FALSE
    /\ message' = "none"
    /\ UNCHANGED <<now, solved_resources, topic_resources, source_file, topic_file,
                   daily_questions, initial_total, accepted_sum, settingVars>>
    /\ UNCHANGED <<timerVars, counterVars, closed>>

\* The clock moves on by a second, or to the start of the next day.
ClockSecond ==
    /\ now[2] < MaxSec
    /\ now' = <<now[1], now[2] + 1>>
    /\ UNCHANGED <<storeVars, trackerVars, settingVars, configVars, message, celebrated>>
    /\ UNCHANGED <<timerVars, counterVars, closed>>

ClockDay ==
    /\ now[1] < MaxDay
    /\ now' = <<now[1] + 1, 0>>
    /\ UNCHANGED <<storeVars, trackerVars, settingVars, configVars, message, celebrated>>
    /\ UNCHANGED <<timerVars, counterVars, closed>>

\* The clock of the countdown moves to a later instant.
ClockTo(instant) ==
    /\ DateLess(now, instant)
    /\ now' = instant
    /\ UNCHANGED <<storeVars, trackerVars, settingVars, configVars, message, celebrated>>
    /\ UNCHANGED <<timerVars, counterVars, closed>>

\* KaynakApp.start_pomodoro_timer: nothing happens while the timer runs;
\* otherwise the tick source is started and _timer_tick is called at once.
KaynakApp_start_pomodoro_timer ==
    LET left == StartLeft(current_time_left, pomodoro_duration)
        t == timer_tick(left, TRUE, TRUE)
    IN  /\ ~closed
        /\ IF ~is_timer_running
           THEN /\ current_time_left' = t.current_time_left
                /\ is_timer_running' = t.is_timer_running
                /\ pomodoro_timer' = t.pomodoro_timer
                /\ timer_label' = t.timer_label
                /\ alarm_played' = t.alarm
                /\ message' = IF t.alarm THEN "time_out" ELSE "none"
                /\ loaded_seconds' = IF current_time_left <= 0 THEN pomodoro_duration
                                     ELSE loaded_seconds
                /\ ticks_delivered' = IF current_time_left <= 0 THEN 0
                                      ELSE ticks_delivered
           ELSE /\ alarm_played' = FALSE
                /\ message' = "none"
                /\ UNCHANGED <<current_time_left, is_timer_running, pomodoro_timer,
                               timer_label, loaded_seconds, ticks_delivered>>
        /\ ret' = "none"
        /\ saved' = FALSE
        /\ config_saved' = FALSE
        /\ celebrated' = FALSE
        /\ UNCHANGED <<now, solved_resources, topic_resources, source_file, topic_file,
                       trackerVars, settingVars, config_file, counterVars, closed>>

\* KaynakApp.stop_pomodoro_timer, the PAUSE button.
KaynakApp_stop_pomodoro_timer ==
    LET t == timer_tick(current_time_left, FALSE, FALSE)
    IN  /\ ~closed
        /\ IF is_timer_running
           THEN /\ current_time_left' = t.current_time_left
                /\ is_timer_running' = t.is_timer_running
                /\ pomodoro_timer' = t.pomodoro_timer
                /\ timer_label' = t.timer_label
           ELSE UNCHANGED <<current_time_left, is_timer_running, pomodoro_timer,
                            timer_label>>
        /\ alarm_played' = FALSE
        /\ message' = "none"
        /\ ret' = "none"
        /\ saved' = FALSE
        /\ config_saved' = FALSE
        /\ celebrated' = FALSE
        /\ UNCHANGED <<now, solved_resources, topic_resources, source_file, topic_file,
                       trackerVars, settingVars, config_file, counterVars, closed,
                       loaded_seconds, ticks_delivered>>

\* KaynakApp.reset_pomodoro_timer.
KaynakApp_reset_pomodoro_timer ==
    LET t == timer_tick(pomodoro_duration, FALSE, FALSE)
    IN  /\ ~closed
        /\ current_time_left' = t.current_time_left
        /\ is_timer_running' = t.is_timer_running
        /\ pomodoro_timer' = t.pomodoro_timer
        /\ timer_label' = t.timer_label
        /\ alarm_played' = t.alarm
        /\ loaded_seconds' = pomodoro_duration
        /\ ticks_delivered' = 0
        /\ message' = "none"
        /\ ret' = "none"
        /\ saved' = FALSE
        /\ config_saved' = FALSE
        /\ celebrated' = FALSE
        /\ UNCHANGED <<now, solved_resources, topic_resources, source_file, topic_file,
                       trackerVars, settingVars, config_file, counterVars, closed>>

\* The timeout of pomodoro_timer, delivered every second while it is
\* scheduled: _timer_tick.
TimerTimeout ==
    LET t == timer_tick(current_time_left, is_timer_running, pomodoro_timer)
    IN  /\ ~closed
        /\ pomodoro_timer
        /\ current_time_left' = t.current_time_left
        /\ is_timer_running' = t.is_timer_running
        /\ pomodoro_timer' = t.pomodoro_timer
        /\ timer_label' = t.timer_label
        /\ alarm_played' = t.alarm
        /\ ticks_delivered' = ticks_delivered + 1
        /\ message' = IF t.alarm THEN "time_out" ELSE "none"
        /\ ret' = "none"
        /\ saved' = FALSE
        /\ config_saved' = FALSE
        /\ celebrated' = FALSE
        /\ UNCHANGED <<now, solved_resources, topic_resources, source_file, topic_file,
                       trackerVars, settingVars, config_file, counterVars, closed,
                       loaded_seconds>>

\* KaynakApp._update_pomodoro_duration, reached from the valueChanged slot of
\* the pomodoro spin box with the minutes times sixty.
KaynakApp_update_pomodoro_duration(seconds) ==
    LET left == DurationLeft(seconds, current_time_left, is_timer_running)
        t == timer_tick(left, is_timer_running, pomodoro_timer)
    IN  /\ ~closed
        /\ pomodoro_duration' = seconds
        /\ config_file' = save_config(seconds, total_target_question_count,
                                      daily_questions, music_path, bg_path, target_date)
        /\ config_saved' = TRUE
        /\ IF ~is_timer_running
           THEN /\ current_time_left' = t.current_time_left
                /\ is_timer_running' = t.is_timer_running
                /\ pomodoro_timer' = t.pomodoro_timer
                /\ timer_label' = t.timer_label
                /\ loaded_seconds' = seconds
                /\ ticks_delivered' = 0
           ELSE /\ current_time_left' = left
                /\ UNCHANGED <<is_timer_running, pomodoro_timer, timer_label,
                               loaded_seconds, ticks_delivered>>
        /\ alarm_played' = FALSE
        /\ message' = "none"
        /\ ret' = "none"
        /\ saved' = FALSE
        /\ celebrated' = FALSE
        /\ UNCHANGED <<now, solved_resources, topic_resources, source_file, topic_file,
                       trackerVars, music_path, bg_path, target_date, counterVars, closed>>

\* KaynakApp.select_background: path is what the file dialog returned, the
\* empty string when it was cancelled.
KaynakApp_select_background(path) ==
    /\ ~closed
    /\ IF path # ""
       THEN /\ bg_path' = path
            /\ config_file' = save_config(pomodoro_duration, total_target_question_count,
                                          daily_questions, music_path, path, target_date)
            /\ config_saved' = TRUE
            /\ message' = "background_changed"
       ELSE /\ config_saved' = FALSE
            /\ message' = "none"
            /\ UNCHANGED <<bg_path, config_file>>
    /\ ret' = "none"
    /\ saved' = FALSE
    /\ celebrated' = FALSE
    /\ UNCHANGED <<now, solved_resources, topic_resources, source_file, topic_file,
                   trackerVars, pomodoro_duration, music_path, target_date,
                   timerVars, counterVars, closed>>

\* KaynakApp.open_change_date_dialog: accepted says whether the dialog was
\* accepted, day is the date it held; the new target is that day's midnight.
\* The pending refreshes are kept within MaxShots.
KaynakApp_open_change_date_dialog(accepted, day) ==
    LET date == <<day, 0>>
        r == update_day_counter(date, now)
    IN  /\ ~closed
        /\ IF accepted
           THEN /\ Len(day_counter_shots) + Len(r.shot) <= MaxShots
                /\ target_date' = date
                /\ config_file' = save_config(pomodoro_duration,
                                              total_target_question_count,
                                              daily_questions, music_path, bg_path, date)
                /\ config_saved' = TRUE
                /\ remaining_days_label' = r.label
                /\ day_counter_shots' = day_counter_shots \o r.shot
           ELSE /\ config_saved' = FALSE
                /\ UNCHANGED <<target_date, config_file, counterVars>>
        /\ message' = "none"
        /\ ret' = "none"
        /\ saved' = FALSE
        /\ celebrated' = FALSE
        /\ UNCHANGED <<now, solved_resources, topic_resources, source_file, topic_file,
                       trackerVars, pomodoro_duration, music_path, bg_path,
                       timerVars, closed>>

\* The i-th pending QTimer.singleShot comes due: update_day_counter runs and
\* schedules the next refresh unless the date has passed.
SingleShotTimeout(i) ==
    LET r == update_day_counter(target_date, now)
    IN  /\ ~closed
        /\ i \in 1..Len(day_counter_shots)
        /\ ~DateLess(now, day_counter_shots[i])
        /\ remaining_days_label' = r.label
        /\ day_counter_shots' = RemoveAt(day_counter_shots, i) \o r.shot
        /\ message' = "none"
        /\ ret' = "none"
        /\ saved' = FALSE
        /\ config_saved' = FALSE
        /\ celebrated' = FALSE
        /\ UNCHANGED <<now, solved_resources, topic_resources, source_file, topic_file,
                       trackerVars, settingVars, config_file, timerVars, closed>>

\* KaynakApp.closeEvent: the config is written and the window closes.
KaynakApp_closeEvent ==
    /\ ~closed
    /\ config_file' = save_config(pomodoro_duration, total_target_question_count,
                                  daily_questions, music_path, bg_path, target_date)
    /\ config_saved' = TRUE
    /\ closed' = TRUE
    /\ message' = "none"
    /\ ret' = "none"
    /\ saved' = FALSE
    /\ celebrated' = FALSE
    /\ UNCHANGED <<now, solved_resources, topic_resources, source_file, topic_file,
                   trackerVars, settingVars, timerVars, counterVars>>

\* ---------------------------------------------------------- specifications
AddResourceStore == \E k \in Kinds, text \in StoreTexts : KaynakApp_add_resource(k, text)
RemoveResourceStore ==
    \E k \in Kinds, name \in StoreNames \cup {NoSelection}, c \in BOOLEAN :
        KaynakApp_remove_selected_resource(k, name, c)
ClearResources == \E k \in Kinds, c \in BOOLEAN : KaynakApp_clear_all_resources(k, c)
AddResourceApp == \E k \in Kinds, text \in AppTexts : KaynakApp_add_resource(k, text)
RemoveResourceApp ==
    \E k \in Kinds, name \in AppNames \cup {NoSelection}, c \in BOOLEAN :
        KaynakApp_remove_selected_resource(k, name, c)
AddDailyQuestions == \E text \in AmountTexts : KaynakApp_add_daily_questions(text)
UpdateTotalTarget == \E v \in TargetInputs : KaynakApp_update_total_target(v)
UpdateTotalTargetPercent == \E v \in PercentTargetInputs : KaynakApp_update_total_target(v)

StartPomodoroTimer == KaynakApp_start_pomodoro_timer
StopPomodoroTimer == KaynakApp_stop_pomodoro_timer
ResetPomodoroTimer == KaynakApp_reset_pomodoro_timer
\* valueChanged runs the slot when the box takes a value it does not show
UpdatePomodoroDuration ==
    \E v \in TimerMinutes :
        /\ v # PomodoroSpinValue(pomodoro_duration \div 60)
        /\ KaynakApp_update_pomodoro_duration(v * 60)
SelectBackground == \E path \in BackgroundPaths : KaynakApp_select_background(path)
ChangeDate ==
    \E accepted \in BOOLEAN, day \in Days : KaynakApp_open_change_date_dialog(accepted, day)
ChangeDateCountdown ==
    \E accepted \in BOOLEAN, day \in CountdownDays :
        KaynakApp_open_change_date_dialog(accepted, day)
RefreshDue == \E i \in 1..Len(day_counter_shots) : SingleShotTimeout(i)
ClockAdvance == \E instant \in CountdownInstants : ClockTo(instant)
CloseEvent == KaynakApp_closeEvent

NextStore ==
    \/ AddResourceStore
    \/ RemoveResourceStore
    \/ ClearResources
    \/ ClockSecond

Next ==
    \/ AddResourceApp
    \/ RemoveResourceApp
    \/ ClearResources
    \/ AddDailyQuestions
    \/ UpdateTotalTarget
    \/ ClockDay

NextPercent ==
    \/ AddDailyQuestions
    \/ UpdateTotalTargetPercent

NextTimer ==
    \/ StartPomodoroTimer
    \/ StopPomodoroTimer
    \/ ResetPomodoroTimer
    \/ TimerTimeout
    \/ UpdatePomodoroDuration

NextCountdown ==
    \/ ChangeDateCountdown
    \/ RefreshDue
    \/ ClockAdvance

NextConfig ==
    \/ AddDailyQuestions
    \/ UpdateTotalTarget
    \/ UpdatePomodoroDuration
    \/ SelectBackground
    \/ ChangeDate
    \/ CloseEvent

SpecStore == InitStore /\ [][NextStore]_vars
SpecTimer == InitTimer /\ [][NextTimer]_vars
SpecCountdown == InitCountdown /\ [][NextCountdown]_vars
SpecConfig == InitConfig /\ [][NextConfig]_vars
Spec == Init /\ [][Next]_vars
SpecPercent == InitPercent /\ [][NextPercent]_vars

\* ------------------------------------------------------------- properties
RecordSet(resources) == {resources[i] : i \in 1..Len(resources)}

ListOf(kind) == IF kind = "topic" THEN topic_resources ELSE solved_resources

OtherKind(kind) == IF kind = "topic" THEN "solved" ELSE "topic"

Matches(resources, name) ==
    \E i \in 1..Len(resources) : Lower(resources[i].name) = Lower(name)

FilesUnchanged == source_file' = source_file /\ topic_file' = topic_file

ListsUnchanged ==
    solved_resources' = solved_resources /\ topic_resources' = topic_resources

\* C1: a successful add of a Solved record raises today's count, and so the
\* total, by DEFAULT_INCREMENT_SOLVED_QUESTIONS; an add of a Topic record and
\* a rejected add leave daily_questions as they were.
C1_SolvedAddGivesBonus ==
    [][\A k \in Kinds, text \in StoreTexts :
          KaynakApp_add_resource(k, text) =>
              IF k = "solved" /\ ret' = "true"
              THEN /\ get_today_solved_count(daily_questions', now')
                        = get_today_solved_count(daily_questions, now)
                          + DEFAULT_INCREMENT_SOLVED_QUESTIONS
                   /\ TotalSolved(daily_questions')
                        = TotalSolved(daily_questions) + DEFAULT_INCREMENT_SOLVED_QUESTIONS
              ELSE daily_questions' = daily_questions]_vars

\* C2: neither list holds two records whose names are equal when case is
\* ignored.
C2_NoDuplicateNames ==
    \A k \in Kinds :
        \A i, j \in 1..Len(ListOf(k)) :
            i # j => Lower(ListOf(k)[i].name) # Lower(ListOf(k)[j].name)

C2_Witness ==
    /\ Len(solved_resources) = 2
    /\ ret = "false"
    /\ message = "already_added"

\* C3: an add of a name the list already holds (case ignored) returns false,
\* changes neither list and writes no file; an add of any other name returns
\* true, adds exactly the new record and keeps every record that was there.
C3_AddResource ==
    [][\A k \in Kinds, text \in StoreTexts :
          (KaynakApp_add_resource(k, text) /\ Strip(text) # <<>>) =>
              IF Matches(ListOf(k), Strip(text))
              THEN /\ ret' = "false"
                   /\ ListsUnchanged
                   /\ FilesUnchanged
                   /\ saved' = FALSE
              ELSE /\ ret' = "true"
                   /\ Len(ListOf(k)') = Len(ListOf(k)) + 1
                   /\ RecordSet(ListOf(k)')
                        = RecordSet(ListOf(k)) \cup {BaseResource(Strip(text), now)}
                   /\ ListOf(OtherKind(k))' = ListOf(OtherKind(k))]_vars

C3_Witness ==
    /\ ret = "true"
    /\ Len(topic_resources) = 2
    /\ Lower(topic_resources[1].name) # Lower(topic_resources[2].name)

\* C4: a remove deletes every record of the kind whose name matches (case
\* ignored) and returns true exactly when one matched; when none matched,
\* lists and files stay as they were and nothing is written; afterwards no
\* record matches, so a second remove of the name returns false.
C4_RemoveResource ==
    [][\A k \in Kinds, name \in StoreNames :
          KaynakApp_remove_selected_resource(k, name, TRUE) =>
              /\ ListOf(k)' = SelectSeq(ListOf(k), LAMBDA r : Lower(r.name) # Lower(name))
              /\ ListOf(OtherKind(k))' = ListOf(OtherKind(k))
              /\ ~Matches(ListOf(k)', name)
              /\ IF Matches(ListOf(k), name)
                 THEN ret' = "true"
                 ELSE /\ ret' = "false"
                      /\ ListsUnchanged
                      /\ FilesUnchanged
                      /\ saved' = FALSE]_vars

C4_Witness ==
    /\ ret = "false"
    /\ message = "delete_problem"
    /\ source_file.valid
    /\ Len(solved_resources) = 1

FileHolds(file, resources) ==
    /\ file.exists
    /\ file.valid
    /\ Len(file.data) = Len(resources)
    /\ RecordSet(file.data) = RecordSet(resources)

C6_LatestAddedFirst ==
    [][\A k \in Kinds, text \in StoreTexts :
          (KaynakApp_add_resource(k, text) /\ ret' = "true") =>
              Head(ListOf(k)').name = Strip(text)]_vars

\* C7: the total is the total loaded at startup plus the accepted amounts,
\* and daily_questions change in no step but an accepted increment.
C7_TotalIsLoadedPlusAccepted ==
    [][/\ TotalSolved(daily_questions') = initial_total' + accepted_sum'
       /\ daily_questions' # daily_questions =>
              \E text \in AmountTexts :
                  /\ KaynakApp_add_daily_questions(text)
                  /\ ParseInt(text).ok
                  /\ ParseInt(text).value > 0]_vars

C7_Witness ==
    /\ initial_total > 0
    /\ accepted_sum > 1
    /\ Len(topic_resources) > 0
    /\ Cardinality(DOMAIN daily_questions) = 2
    /\ total_target_question_count = 1

GoalMet == 
    /\ TotalSolved(daily_questions) >= total_target_question_count
    /\ total_target_question_count > 0

\* C8: the goal counts as reached exactly when the total is at least a
\* positive target (that is when the handlers celebrate), and with the
\* target left alone a reached goal stays reached.
C8_GoalReachedStays ==
    [][/\ (total_target_question_count' = total_target_question_count /\ GoalMet)
              => GoalMet'
       /\ TotalSolved(daily_questions') >= TotalSolved(daily_questions)
       /\ (\/ \E text \in AmountTexts :
                  KaynakApp_add_daily_questions(text) /\ message' = "questions_added"
           \/ \E v \in TargetInputs : KaynakApp_update_total_target(v))
              => (celebrated' <=> GoalMet')]_vars

C8_Witness ==
    /\ celebrated
    /\ message = "questions_added"
    /\ TotalSolved(daily_questions) = total_target_question_count
    /\ accepted_sum > 0

\* C9: the progress value set by update_total_progress is
\* min(100, floor(100 * total / target)) for a positive target.
C9_PercentIsFloor ==
    [][\A v \in PercentTargetInputs :
          KaynakApp_update_total_target(v) =>
              progress_bar' = Min(100, (100 * TotalSolved(daily_questions')) \div v)]_vars

\* C10: an amount that is no integer or not positive changes neither
\* daily_questions nor the target nor the config file; a positive amount is
\* added to today's count (from zero when the date is new) and no other
\* date's count changes.
C10_DailyIncrement ==
    [][\A text \in AmountTexts :
          KaynakApp_add_daily_questions(text) =>
              LET parsed == ParseInt(text)
                  today == now[1]
              IN  IF ~parsed.ok \/ parsed.value <= 0
                  THEN /\ daily_questions' = daily_questions
                       /\ total_target_question_count' = total_target_question_count
                       /\ config_file' = config_file
                  ELSE /\ DOMAIN daily_questions' = (DOMAIN daily_questions) \cup {today}
                       /\ daily_questions'[today]
                            = (IF today \in DOMAIN daily_questions
                               THEN daily_questions[today] ELSE 0) + parsed.value
                       /\ \A d \in (DOMAIN daily_questions) \ {today} :
                              daily_questions'[d] = daily_questions[d]]_vars

C10_Witness ==
    /\ message = "questions_added"
    /\ Cardinality(DOMAIN daily_questions) = 2
    /\ daily_questions[0] = 1
    /\ daily_questions[1] = 2

\* C11: a timer loaded with D >= 1 seconds expires (and plays the alarm)
\* only when D timeouts have been delivered since the load, and it expires
\* with no time left.
C11_ExpiresAfterFullDuration ==
    [][(StartPomodoroTimer \/ TimerTimeout) /\ alarm_played' /\ loaded_seconds' >= 1 =>
          /\ ticks_delivered' >= loaded_seconds'
          /\ current_time_left' = 0]_vars

\* C12: the time left never exceeds the duration.
C12_RemainingWithinDuration == current_time_left <= pomodoro_duration

\* C13: with a duration of at least one second, start while the timer is
\* not running ends with the timer running, the time left being the duration
\* if none was left and what it was otherwise; start while the timer runs
\* changes nothing of the timer.
C13_StartRuns ==
    [][StartPomodoroTimer /\ pomodoro_duration >= 1 =>
          IF is_timer_running
          THEN UNCHANGED <<current_time_left, is_timer_running, pomodoro_timer,
                           pomodoro_duration>>
          ELSE /\ is_timer_running'
               /\ current_time_left' = IF current_time_left <= 0 THEN pomodoro_duration
                                       ELSE current_time_left]_vars

\* C14: with a duration of at least one second the time left is never
\* negative, and the minutes and seconds shown are those of the time left,
\* the seconds within 0..59.
C14_ReportedTimeIsTrue ==
    pomodoro_duration >= 1 =>
        /\ current_time_left >= 0
        /\ timer_label.seconds \in 0..59
        /\ timer_label.minutes * 60 + timer_label.seconds = current_time_left

C14_Witness ==
    /\ pomodoro_duration >= 1
    /\ current_time_left = 0
    /\ timer_label.time_to_break
    /\ alarm_played
    /\ ticks_delivered > 0

\* C15: set_duration(s) sets the duration to s; with the timer not running
\* the time left becomes s and the timer stays not running, with the timer
\* running the time left and the running state stay as they were.
C15_SetDuration ==
    [][\A v \in TimerMinutes :
          KaynakApp_update_pomodoro_duration(v * 60) =>
              /\ pomodoro_duration' = v * 60
              /\ IF ~is_timer_running
                 THEN current_time_left' = v * 60 /\ ~is_timer_running'
                 ELSE current_time_left' = current_time_left /\ is_timer_running']_vars

C15_Witness ==
    /\ config_saved
    /\ is_timer_running
    /\ current_time_left < loaded_seconds
    /\ pomodoro_duration # loaded_seconds

\* C16: whenever the countdown is computed, with t the whole seconds from now
\* to the target date, it shows 'passed' iff t <= 0 and otherwise
\* days = floor(t / 86400) and hours = floor((t mod 86400) / 3600), so that
\* hours is in 0..23 and days * 24 + hours is at most the whole hours left.
C16_CountdownIsFloor ==
    [][(RefreshDue \/ \E day \in CountdownDays :
                          KaynakApp_open_change_date_dialog(TRUE, day)) =>
          LET t == (target_date'[1] * 86400 + target_date'[2])
                   - (now'[1] * 86400 + now'[2])
              label == remaining_days_label'
          IN  /\ label.passed <=> t <= 0
              /\ t > 0 => /\ label.days = t \div 86400
                          /\ label.hours = (t % 86400) \div 3600
                          /\ label.hours \in 0..23
                          /\ label.days * 24 + label.hours <= t \div 3600]_vars

C16_Witness ==
    /\ now = <<0, 60>>
    /\ target_date = <<1, 0>>
    /\ remaining_days_label = [passed |-> FALSE, days |-> 0, hours |-> 23]
    /\ day_counter_shots = <<<<0, 120>>>>

C18_TickSourceFollowsRunning ==
    /\ [](pomodoro_timer <=> is_timer_running)
    /\ [][/\ StopPomodoroTimer => current_time_left' = current_time_left
          /\ ResetPomodoroTimer => current_time_left' = pomodoro_duration
          /\ UpdatePomodoroDuration /\ ~is_timer_running =>
                 current_time_left' = pomodoro_duration']_vars

C18_Witness ==
    /\ ~pomodoro_timer
    /\ ~is_timer_running
    /\ ~alarm_played
    /\ ~timer_label.time_to_break
    /\ current_time_left > 0
    /\ current_time_left < loaded_seconds
    /\ ticks_delivered > 0

\* C19: at most one countdown refresh is pending at any time.
C19_AtMostOneRefresh == Len(day_counter_shots) <= 1

\* C20: after an accepted daily increment and after set_target the progress
\* bar shows the progress percentage of the daily questions and the target
\* as they are then.
C20_ProgressBarFresh ==
    [][(\/ AddDailyQuestions /\ daily_questions' # daily_questions
        \/ UpdateTotalTarget) =>
          progress_bar' = ProgressValue(TotalSolved(daily_questions'),
                                        total_target_question_count')]_vars

====
